---- MODULE Spec2Model ----
(***************************************************************************)
(* A model of ezbak's BackupManager (controllers/backup_manager.py), of    *)
(* the object-store service it drives (controllers/aws.py) and of the      *)
(* retention engine of the specification (section 4.4).                    *)
(*                                                                         *)
(* One BackupManager instance works on two storage locations, a local      *)
(* directory and an S3 bucket (settings.storage_location = ALL).  The      *)
(* state is what the two backends hold, the manager's cached inventory     *)
(* and the observable outcome of the last operation.                       *)
(***************************************************************************)
EXTENDS Integers, Sequences, FiniteSets, TLC

\* ------------------------------------------------------------------ bounds

\* Most backups a storage location holds in an initial state.
MaxInit == 2

\* Most operations one BackupManager performs in a behaviour.
MaxOps == 2

\* Most backups in the list the bucketing specification draws.
MaxList == 7

\* ---------------------------------------------------------------- calendar

\* The instants backups are taken at, ascending.  wy and w are the ISO
\* week-numbering year and the ISO week.
Calendar ==
    << [y |-> 2023, mo |-> 6,  d |-> 15, h |-> 12, mi |-> 0,  s |-> 0,  wy |-> 2023, w |-> 24],
       [y |-> 2023, mo |-> 12, d |-> 31, h |-> 23, mi |-> 59, s |-> 0,  wy |-> 2023, w |-> 52],
       [y |-> 2024, mo |-> 1,  d |-> 1,  h |-> 0,  mi |-> 0,  s |-> 0,  wy |-> 2024, w |-> 1],
       [y |-> 2024, mo |-> 1,  d |-> 3,  h |-> 8,  mi |-> 15, s |-> 0,  wy |-> 2024, w |-> 1],
       [y |-> 2024, mo |-> 1,  d |-> 3,  h |-> 8,  mi |-> 45, s |-> 0,  wy |-> 2024, w |-> 1],
       [y |-> 2024, mo |-> 1,  d |-> 3,  h |-> 8,  mi |-> 45, s |-> 30, wy |-> 2024, w |-> 1],
       [y |-> 2024, mo |-> 1,  d |-> 3,  h |-> 8,  mi |-> 50, s |-> 0,  wy |-> 2024, w |-> 1],
       [y |-> 2024, mo |-> 1,  d |-> 3,  h |-> 8,  mi |-> 55, s |-> 0,  wy |-> 2024, w |-> 1],
       [y |-> 2024, mo |-> 1,  d |-> 3,  h |-> 20, mi |-> 0,  s |-> 0,  wy |-> 2024, w |-> 1],
       [y |-> 2024, mo |-> 1,  d |-> 20, h |-> 9,  mi |-> 0,  s |-> 0,  wy |-> 2024, w |-> 3],
       [y |-> 2024, mo |-> 12, d |-> 30, h |-> 10, mi |-> 0,  s |-> 0,  wy |-> 2025, w |-> 1],
       [y |-> 2025, mo |-> 1,  d |-> 2,  h |-> 10, mi |-> 0,  s |-> 0,  wy |-> 2025, w |-> 1] >>

AllTimes == DOMAIN Calendar

\* The instants of the backups of an initial state of Spec, and the instants
\* create_backup may run at.
InitTimes == {2, 3, 4}

NowTimes == {4, 10}

\* ------------------------------------------------------------------- names

\* None, of an optional string and of an optional count.
None == "none"

Unset == 0 - 1

\* TimeBucket, finest to coarsest.
BackupTypes == <<"minutely", "hourly", "daily", "weekly", "monthly", "yearly">>

Periods == {BackupTypes[i] : i \in DOMAIN BackupTypes}

\* A filename is the sequence of its hyphen-separated fields; the extension
\* is BACKUP_EXTENSION throughout.
Word(str) == [k |-> "word", w |-> str, n |-> 0]

Ts(i) == [k |-> "ts", w |-> "", n |-> i]

Uid(u) == [k |-> "uid", w |-> "", n |-> u]

\* <name> "-" <timestamp> [ "-" <bucket> ] [ "-" <uid> ] "." "tgz"
BackupName(name, timestamp, period, uuid) ==
    name \o <<Ts(timestamp)>>
         \o (IF period = None THEN <<>> ELSE <<Word(period)>>)
         \o (IF uuid = 0 THEN <<>> ELSE <<Uid(uuid)>>)

IsTail(fields) ==
    \/ fields = <<>>
    \/ Len(fields) = 1 /\ fields[1].k = "word" /\ fields[1].w \in Periods
    \/ Len(fields) = 1 /\ fields[1].k = "uid"
    \/ /\ Len(fields) = 2
       /\ fields[1].k = "word" /\ fields[1].w \in Periods
       /\ fields[2].k = "uid"

\* The positions of a filename the timestamp group of BACKUP_NAME_REGEX can
\* match at: a non-empty name before, a legal tail after.
TimestampPositions(filename) ==
    {i \in 2..Len(filename) :
        filename[i].k = "ts" /\ IsTail(SubSeq(filename, i + 1, Len(filename)))}

Matches(filename) == TimestampPositions(filename) # {}

\* The groups of a filename whose timestamp group matches at position i and
\* is followed by tail.
Groups(filename, i, tail) ==
    [name      |-> SubSeq(filename, 1, i - 1),
     timestamp |-> filename[i].n,
     period    |-> IF tail # <<>> /\ tail[1].k = "word" THEN tail[1].w ELSE None,
     uuid      |-> IF tail # <<>> /\ tail[Len(tail)].k = "uid"
                   THEN tail[Len(tail)].n ELSE 0]

GroupsAt(filename, i) ==
    Groups(filename, i, SubSeq(filename, i + 1, Len(filename)))

\* The name group is greedy: the timestamp matches at the last position.
LastOf(positions) == CHOOSE p \in positions : \A q \in positions : q <= p

\* BACKUP_NAME_REGEX's groups
ParseName(filename) == GroupsAt(filename, LastOf(TimestampPositions(filename)))

\* Backup.zoned_datetime, as the index of its instant in Calendar.
zoned_datetime(backup) == ParseName(backup.name).timestamp

\* settings.name
SettingsName == <<Word("foo")>>

\* StorageType.LOCAL and StorageType.AWS
StorageLocal == "local"

StorageAws == "aws"

\* ------------------------------------------------------------- sequences

Range(seq) == {seq[i] : i \in DOMAIN seq}

\* The list a comprehension builds, element by element.
List(seq) == seq \o <<>>

RECURSIVE Flatten(_)
Flatten(seqs) ==
    IF seqs = <<>> THEN <<>> ELSE Head(seqs) \o Flatten(Tail(seqs))

Reverse(seq) == List([i \in 1..Len(seq) |-> seq[Len(seq) + 1 - i]])

\* seq[k:] of Python, k >= 0.
SliceFrom(seq, k) == SubSeq(seq, k + 1, Len(seq))

\* subsequence of seq at the positions in P, in order
RECURSIVE AtPositions(_, _, _)
AtPositions(seq, P, from) ==
    IF from > Len(seq) THEN <<>>
    ELSE (IF from \in P THEN <<seq[from]>> ELSE <<>>) \o AtPositions(seq, P, from + 1)

\* --------------------------------------------------------------- bucketing

\* The passes of the coarsest-unique rule, in order.
Passes == Reverse(BackupTypes)

\* What a pass groups by: calendar year, calendar month, ISO week, calendar
\* day, hour, minute.
KeyOf(type, c) ==
    CASE type = "yearly"   -> <<c.y>>
      [] type = "monthly"  -> <<c.y, c.mo>>
      [] type = "weekly"   -> <<c.wy, c.w>>
      [] type = "daily"    -> <<c.y, c.mo, c.d>>
      [] type = "hourly"   -> <<c.y, c.mo, c.d, c.h>>
      [] type = "minutely" -> <<c.y, c.mo, c.d, c.h, c.mi>>

PeriodKey(type, timestamp) == KeyOf(type, Calendar[timestamp])

\* The positions a pass classifies among the positions R still unclassified:
\* the most recent of each group, which in a list sorted ascending is the
\* last one.  instants[i] is the instant of the backup at position i.
Winners(instants, type, R) ==
    {i \in R :
        \A j \in R :
            PeriodKey(type, instants[j]) = PeriodKey(type, instants[i]) => j <= i}

\* A pass that leaves the passes after it what it was given.
RemainingAll(R, classified) == R

\* What a pass leaves to the passes after it.
Remaining(R, classified) == R \ classified

\* The passes from pass p on: the positions each pass classifies, in the
\* order of Passes, then the positions no pass classifies.
RECURSIVE Classify(_, _, _)
Classify(instants, p, R) ==
    IF p > Len(Passes) THEN <<R>>
    ELSE LET classified == Winners(instants, Passes[p], R)
         IN  <<classified>> \o Classify(instants, p + 1, Remaining(R, classified))

\* The instants of the backups of a list, by position.
Instants(backups) == List([i \in DOMAIN backups |-> zoned_datetime(backups[i])])

\* The classes of a list whose positions the passes classified as c.
Buckets(backups, c) ==
    [yearly   |-> AtPositions(backups, c[1], 1),
     monthly  |-> AtPositions(backups, c[2], 1),
     weekly   |-> AtPositions(backups, c[3], 1),
     daily    |-> AtPositions(backups, c[4], 1),
     hourly   |-> AtPositions(backups, c[5], 1),
     minutely |-> AtPositions(backups, c[6] \cup c[7], 1)]

\* StorageLocation.backups_by_time_unit: each class with its backups, in the
\* order of the list; what no pass classifies falls into minutely.
backups_by_time_unit(backups) ==
    Buckets(backups, Classify(Instants(backups), 1, DOMAIN backups))

\* ------------------------------------------------------------------- state

VARIABLES
    backend,                    \* what each storage location holds: filenames
    _storage_locations,         \* BackupManager._storage_locations
    rebuild_storage_locations,  \* BackupManager.rebuild_storage_locations
    did_create_backup,          \* the attribute rename_backups sets
    max_backups,                \* settings.max_backups
    retention,                  \* settings.retention_<bucket>
    label_time_units,           \* settings.label_time_units
    uid_count,                  \* the uids new_uid has handed out
    ops,                        \* operations performed
    op,                         \* the last operation
    prev_op,                    \* the operation before it
    raised,                     \* the exception the last operation ended with
    returned,                   \* the backups the last operation returned
    files_for_rename,           \* rename_backups' list when it ended
    by_time_unit,               \* the bucketings the last operation computed
    calls,                      \* the backend calls of the last operation
    pre,                        \* what the backends held before it
    include_regex,              \* settings.include_regex
    exclude_regex,              \* settings.exclude_regex
    candidates,                 \* the files under the source directories
    files_to_add,               \* the files the last archive build was given
    tmp_backup,                 \* the archive the last create_backup had built
    destination,                \* the restore destination: what it is and what it holds
    result,                     \* what the last restore_backup or delete_objects returned
    batch,                      \* the keys the last delete_objects was called with
    _retention_policy,          \* Settings._retention_policy: the policy cached, if one is
    aws_service                 \* AWSService at work: bucket_path, the bucket by full key, its rename_file

vars ==
    <<backend, _storage_locations, rebuild_storage_locations, did_create_backup,
      max_backups, retention, label_time_units, uid_count, ops, op, prev_op,
      raised, returned, files_for_rename, by_time_unit, calls, pre,
      include_regex, exclude_regex, candidates, files_to_add, tmp_backup,
      destination, result, batch, _retention_policy, aws_service>>

StorageTypes == <<StorageLocal, StorageAws>>

Backup(storage_type, name) == [storage_type |-> storage_type, name |-> name]

StorageLocation(storage_type, backups) ==
    [storage_type |-> storage_type, backups |-> backups]

\* The path restore_backup restores to: unset when neither the argument nor
\* settings.restore_path names one, missing, a file, or a directory and the
\* files in it.
Destination(kind, files) == [kind |-> kind, files |-> files]

\* An AWSService that is in no call: bucket_path as a list of folders, and
\* what the bucket holds under each full key.
Service(bucket_path, objects) ==
    [bucket_path |-> bucket_path, objects |-> objects, pc |-> "idle",
     current_name |-> <<>>, new_name |-> <<>>, content |-> 0]

\* A listing sorted with the latest backup first.
RECURSIVE SortedDescending(_, _)
SortedDescending(storage_type, names) ==
    IF names = {} THEN {<<>>}
    ELSE LET first == {n \in names :
                          \A m \in names :
                              ParseName(m).timestamp <= ParseName(n).timestamp}
         IN  UNION {{<<Backup(storage_type, n)>> \o rest :
                        rest \in SortedDescending(storage_type, names \ {n})} :
                    n \in first}

\* sorted(..., key=lambda x: x.zoned_datetime); the order the backend lists
\* equal instants in is the backend's.
RECURSIVE SortedListings(_, _)
SortedListings(storage_type, names) ==
    IF names = {} THEN {<<>>}
    ELSE LET first == {n \in names :
                          \A m \in names :
                              ParseName(n).timestamp <= ParseName(m).timestamp}
         IN  UNION {{<<Backup(storage_type, n)>> \o rest :
                        rest \in SortedListings(storage_type, names \ {n})} :
                    n \in first}

\* The glob *<settings.name>*.tgz: settings.name is somewhere in the filename.
Globbed(filename) ==
    \E i \in 1..Len(filename) :
        /\ i + Len(SettingsName) - 1 <= Len(filename)
        /\ SubSeq(filename, i, i + Len(SettingsName) - 1) = SettingsName

\* Prefix=settings.name: the key begins with settings.name.
Prefixed(filename) ==
    /\ Len(SettingsName) <= Len(filename)
    /\ SubSeq(filename, 1, Len(SettingsName)) = SettingsName

\* find_files(globs=[f"*{settings.name}*.tgz"]) and Backup's parse of the names
_find_existing_backups_local ==
    {<<StorageLocation(StorageLocal, l)>> :
        l \in SortedListings(StorageLocal,
                             {f \in backend[StorageLocal] :
                                 Globbed(f) /\ Matches(f)})}

\* list_objects(prefix=settings.name)
_find_existing_backups_aws ==
    {<<StorageLocation(StorageAws, l)>> :
        l \in SortedListings(StorageAws,
                             {f \in backend[StorageAws] :
                                 Prefixed(f) /\ Matches(f)})}

\* The values the storage_locations property can return; the one returned is
\* also the new _storage_locations.
storage_locations ==
    IF ~rebuild_storage_locations /\ _storage_locations # <<>>
    THEN {_storage_locations}
    ELSE {l \o a : l \in _find_existing_backups_local, a \in _find_existing_backups_aws}

\* ---------------------------------------------------------------- settings

\* The RetentionPolicyManager Settings.retention_policy builds from the
\* inputs when none is cached; any() takes a count of 0 as one not given.
RetentionPolicyManager(max, counts) ==
    IF max # Unset
    THEN [policy_type |-> "count_based", count_based_policy |-> max,
          time_based_policy |-> [t \in Periods |-> Unset]]
    ELSE IF \E t \in Periods : counts[t] # Unset /\ counts[t] # 0
    THEN [policy_type |-> "time_based", count_based_policy |-> Unset,
          time_based_policy |-> counts]
    ELSE [policy_type |-> "keep_all", count_based_policy |-> Unset,
          time_based_policy |-> [t \in Periods |-> Unset]]

\* Settings.retention_policy: the cached policy if there is one; the reader
\* leaves what it returns in the cache.
retention_policy ==
    IF _retention_policy # <<>> THEN _retention_policy[1]
    ELSE RetentionPolicyManager(max_backups, retention)

\* RetentionPolicyManager.get_retention: an unset count is 0.
get_retention(policy, type) ==
    IF policy.policy_type = "count_based" THEN policy.count_based_policy
    ELSE IF policy.time_based_policy[type] = Unset THEN 0
    ELSE policy.time_based_policy[type]

\* ------------------------------------------------------------------ filter

\* ALWAYS_EXCLUDE_FILENAMES
ALWAYS_EXCLUDE_FILENAMES == {".DS_Store", "Thumbs.db", ".Spotlight-V100"}

\* A file to back up: its path, component by component, whether the path is
\* a symlink, whether it is a configured source itself or is met under one,
\* and whether that source is configured as a symlink.
Candidate(path, is_symlink, as_source, source_is_symlink) ==
    [path |-> path, is_symlink |-> is_symlink,
     as_source |-> as_source, source_is_symlink |-> source_is_symlink]

\* A file under a source directory: its path and whether it is a symlink.
File(path, is_symlink) == Candidate(path, is_symlink, FALSE, FALSE)

\* Path(source).expanduser().resolve() of Settings.source_paths: a source
\* that is a symlink becomes the path it points to.
Resolved(file) ==
    IF file.as_source THEN [file EXCEPT !.is_symlink = FALSE] ELSE file

\* path.name
Basename(path) == path[Len(path)]

\* re.search(regex, string) for a regex that is a literal text and a string
\* that is a sequence of components: the text is found when a component
\* reads as it.
Search(regex, string) == \E i \in DOMAIN string : string[i] = regex

\* The truth value of an optional regex: None and the empty string are false.
Truthy(regex) == regex # None /\ regex # ""

\* A filter that applies the regexes to the basename.
_include_file_by_basename(file) ==
    IF file.is_symlink THEN FALSE
    ELSE IF Basename(file.path) \in ALWAYS_EXCLUDE_FILENAMES THEN FALSE
    ELSE IF Truthy(include_regex) /\ ~Search(include_regex, <<Basename(file.path)>>)
    THEN FALSE
    ELSE IF Truthy(exclude_regex) /\ Search(exclude_regex, <<Basename(file.path)>>)
    THEN FALSE
    ELSE TRUE

\* BackupManager._include_file_in_backup
_include_file_in_backup(file) ==
    IF file.is_symlink THEN FALSE
    ELSE IF Basename(file.path) \in ALWAYS_EXCLUDE_FILENAMES THEN FALSE
    ELSE IF Truthy(include_regex) /\ ~Search(include_regex, file.path) THEN FALSE
    ELSE IF Truthy(exclude_regex) /\ Search(exclude_regex, file.path) THEN FALSE
    ELSE TRUE

\* _create_tmp_backup_file's files_to_add: the files the traversal of a
\* source directory yields and the sources that are files, as far as
\* _include_file_in_backup lets them in.
_create_tmp_backup_file ==
    {f \in candidates : _include_file_in_backup(Resolved(f))}

\* A manager without regexes, one file to back up.
Unfiltered ==
    /\ include_regex = None
    /\ exclude_regex = None
    /\ candidates = {File(<<"docs", "a.txt">>, FALSE)}
    /\ files_to_add = {}
    /\ tmp_backup = None
    /\ aws_service = Service(<<>>, <<>>)
    /\ _retention_policy = <<>>
    /\ batch = <<>>
    /\ result = None
    /\ destination = Destination("unset", {})

\* ------------------------------------------------------------ initial state

\* The filenames an initial state draws from: unlabeled and labeled backups
\* of settings.name.
InitNames ==
    {BackupName(SettingsName, t, p, 0) : t \in InitTimes, p \in {None, "daily"}}

Inventories == {S \in SUBSET InitNames : Cardinality(S) <= MaxInit}

\* The retention inputs a behaviour is configured with.
RetentionInputs ==
    {r \in [Periods -> {Unset, 1}] :
        \A t \in Periods \ {"yearly", "monthly"} : r[t] = Unset}

NoCalls == <<>>

Observed(o, exc, ret, ffr, btu, log) ==
    /\ op' = o
    /\ prev_op' = op
    /\ ops' = ops + 1
    /\ raised' = exc
    /\ returned' = ret
    /\ files_for_rename' = ffr
    /\ by_time_unit' = btu
    /\ calls' = log
    /\ pre' = backend

\* Every backup was published to both locations, or one of the two is new.
Init ==
    /\ backend \in [{StorageLocal, StorageAws} -> Inventories]
    /\ \/ backend[StorageAws] \in {backend[StorageLocal], {}}
       \/ backend[StorageLocal] = {}
    /\ _storage_locations = <<>>
    /\ rebuild_storage_locations = FALSE
    /\ did_create_backup = FALSE
    /\ max_backups \in {Unset, 0, 1}
    /\ retention \in RetentionInputs
    /\ max_backups = Unset \/ retention = [t \in Periods |-> Unset]
    /\ label_time_units \in BOOLEAN
    /\ uid_count = 0
    /\ ops = 0
    /\ op = "init"
    /\ prev_op = "init"
    /\ raised = None
    /\ returned = <<>>
    /\ files_for_rename = <<>>
    /\ by_time_unit = <<>>
    /\ calls = NoCalls
    /\ pre = backend
    /\ Unfiltered

\* -------------------------------------------------------------- operations

\* BackupManager.list_backups
list_backups ==
    /\ ops < MaxOps
    /\ \E sl \in storage_locations :
        /\ _storage_locations' = sl
        /\ Observed("list_backups", None,
                    Flatten(List([i \in DOMAIN sl |-> sl[i].backups])),
                    <<>>, <<>>, NoCalls)
    /\ UNCHANGED <<backend, rebuild_storage_locations, did_create_backup,
                   max_backups, retention, label_time_units, uid_count,
                   include_regex, exclude_regex, candidates, files_to_add,
                   tmp_backup, destination, result, batch, _retention_policy,
                   aws_service>>

\* A request to a backend: what it names and what the backend answered.
Call(api, keys, dst, resp) ==
    [api |-> api, keys |-> keys, dst |-> dst, resp |-> resp]

Names(backups) == List([i \in DOMAIN backups |-> backups[i].name])

OfType(backups, storage_type) ==
    SelectSeq(backups, LAMBDA b : b.storage_type = storage_type)

\* list(reversed(backups))[max_keep:] when len(backups) > max_keep
Excess(backups, max_keep) ==
    IF Len(backups) > max_keep THEN SliceFrom(Reverse(backups), max_keep) ELSE <<>>

\* A COUNT_BASED case that slices the list without reversing it.
CountBasedVictimsUnreversed(storage_location, policy) ==
    IF Len(storage_location.backups) > get_retention(policy, None)
    THEN SliceFrom(storage_location.backups, get_retention(policy, None))
    ELSE <<>>

\* prune_backups' COUNT_BASED case for one storage location
CountBasedVictims(storage_location, policy) ==
    Excess(storage_location.backups, get_retention(policy, None))

\* A TIME_BASED case that leaves alone a bucket without a configured count.
TimeBasedVictimsUnsetKeeps(storage_location, policy) ==
    LET buckets == backups_by_time_unit(storage_location.backups)
    IN  Flatten(List([i \in DOMAIN BackupTypes |->
                    IF policy.time_based_policy[BackupTypes[i]] = Unset THEN <<>>
                    ELSE Excess(buckets[BackupTypes[i]],
                                get_retention(policy, BackupTypes[i]))]))

\* prune_backups' TIME_BASED case for one storage location
TimeBasedVictims(storage_location, policy) ==
    LET buckets == backups_by_time_unit(storage_location.backups)
    IN  Flatten(List([i \in DOMAIN BackupTypes |->
                    Excess(buckets[BackupTypes[i]],
                           get_retention(policy, BackupTypes[i]))]))

\* The deleted_backups that prune_backups' first loop builds.
Victims(sl, policy) ==
    IF policy.policy_type = "keep_all" THEN <<>>
    ELSE Flatten(List([i \in DOMAIN sl |->
                    IF policy.policy_type = "count_based"
                    THEN CountBasedVictims(sl[i], policy)
                    ELSE TimeBasedVictims(sl[i], policy)]))

\* _delete_backup on the local victims in turn: Path.unlink raises
\* FileNotFoundError on a file that is not there, and that ends the call.
DeleteLocal(victims, files) ==
    LET missing == {i \in DOMAIN victims : victims[i].name \notin files}
        stop    == IF missing = {} THEN Len(victims) + 1
                   ELSE CHOOSE i \in missing : \A j \in missing : i <= j
    IN  [files  |-> files \ {victims[i].name : i \in 1..(stop - 1)},
         raised |-> IF missing = {} THEN None ELSE "FileNotFoundError",
         calls  |-> List([i \in 1..(IF missing = {} THEN Len(victims) ELSE stop) |->
                             Call("unlink", <<victims[i].name>>, <<>>,
                                  IF i \in missing THEN "FileNotFoundError" ELSE "ok")])]

\* What the object store can answer to the batch request of delete_objects:
\* every key deleted, one key reported in Errors, or a ClientError for the
\* request as a whole.
NoDeleteFault == [kind |-> None, key |-> <<>>]

DeleteFaults(keys) ==
    IF keys = <<>> THEN {NoDeleteFault}
    ELSE {NoDeleteFault, [kind |-> "ClientError", key |-> <<>>]}
             \cup {[kind |-> "Errors", key |-> k] : k \in Range(keys)}

\* len(keys) > 1000
MaxKeys == 1000

\* The batch request of delete_objects.  The store removes the keys it holds
\* and reports the others deleted as well; a key it reports in Errors stays,
\* and the method returns False; a ClientError is raised again.
DeleteRequest(keys, files, fault) ==
    IF fault.kind = "ClientError"
    THEN [files  |-> files,
          raised |-> "ClientError",
          result |-> None,
          calls  |-> <<Call("delete_objects", keys, <<>>, "ClientError")>>]
    ELSE IF fault.kind = "Errors"
    THEN [files  |-> files \ (Range(keys) \ {fault.key}),
          raised |-> None,
          result |-> FALSE,
          calls  |-> <<Call("delete_objects", keys, <<>>, "Errors")>>]
    ELSE [files  |-> files \ Range(keys),
          raised |-> None,
          result |-> TRUE,
          calls  |-> <<Call("delete_objects", keys, <<>>, "ok")>>]

\* A delete_objects that sends whatever it is given.
DeleteUnbounded(keys, files, fault) ==
    DeleteRequest(keys, files, fault)

\* AWSService.delete_objects: no keys are a success without a request, more
\* than 1000 a ValueError without one.
DeleteObjects(keys, files, fault) ==
    IF keys = <<>>
    THEN [files |-> files, raised |-> None, result |-> TRUE, calls |-> <<>>]
    ELSE IF Len(keys) > MaxKeys
    THEN [files |-> files, raised |-> "ValueError", result |-> None,
          calls |-> <<>>]
    ELSE DeleteRequest(keys, files, fault)

\* prune_backups' batch request, made when the local deletes went through
\* and a victim is in the bucket; what it returns is dropped.
DeleteAws(deleted, local, fault) ==
    IF local.raised = None /\ OfType(deleted, StorageAws) # <<>>
    THEN DeleteObjects(Names(OfType(deleted, StorageAws)), backend[StorageAws],
                       fault)
    ELSE [files |-> backend[StorageAws], raised |-> None, result |-> None,
          calls |-> <<>>]

\* What the deletes leave: the backends, the exception, the requests.
Deleted(local, s3) ==
    [backend |-> [backend EXCEPT ![StorageLocal] = local.files,
                                 ![StorageAws] = s3.files],
     raised  |-> IF local.raised # None THEN local.raised ELSE s3.raised,
     calls   |-> local.calls \o s3.calls]

DeleteAfterLocal(deleted, local, fault) ==
    Deleted(local, DeleteAws(deleted, local, fault))

\* prune_backups' deletes: the local victims one by one, then the bucket's.
DeleteBackups(deleted, fault) ==
    DeleteAfterLocal(deleted,
                     DeleteLocal(OfType(deleted, StorageLocal), backend[StorageLocal]),
                     fault)

\* The bucketings of the storage locations of a list.
Bucketings(sl) == List([i \in DOMAIN sl |-> backups_by_time_unit(sl[i].backups)])

\* The end of prune_backups: an exception leaves the caller without the list.
Pruned(sl, deleted, end) ==
    /\ _storage_locations' = sl
    /\ backend' = end.backend
    /\ Observed("prune_backups", end.raised,
                IF end.raised = None THEN deleted ELSE <<>>,
                <<>>,
                IF retention_policy.policy_type = "time_based"
                THEN Bucketings(sl) ELSE <<>>,
                end.calls)

\* prune_backups on the victims deleted; the batch request of the object
\* store goes through or goes wrong.
PruneVictims(sl, deleted) ==
    \E fault \in DeleteFaults(Names(OfType(deleted, StorageAws))) :
        Pruned(sl, deleted, DeleteBackups(deleted, fault))

\* BackupManager.prune_backups
prune_backups ==
    /\ ops < MaxOps
    /\ \E sl \in storage_locations : PruneVictims(sl, Victims(sl, retention_policy))
    /\ _retention_policy' = <<retention_policy>>
    /\ UNCHANGED <<rebuild_storage_locations, did_create_backup,
                   max_backups, retention, label_time_units, uid_count,
                   include_regex, exclude_regex, candidates, files_to_add,
                   tmp_backup, destination, result, batch, aws_service>>

FileForRename(backup, new_name, do_rename) ==
    [backup |-> backup, new_name |-> new_name, do_rename |-> do_rename]

\* re.sub(rf"-{text}", "", filename): every field after the first that reads
\* as the given field goes.
StripField(filename, field) ==
    AtPositions(filename,
                {i \in DOMAIN filename : i = 1 \/ filename[i] # field}, 1)

\* if found_period: re.sub(rf"-{found_period}", "", new_backup_name)
StripPeriod(filename, matches) ==
    IF matches.period # None THEN StripField(filename, Word(matches.period))
    ELSE filename

\* if found_uuid: re.sub(rf"-{found_uuid}", "", new_backup_name)
StripUuid(filename, matches) ==
    IF matches.uuid # 0 THEN StripField(filename, Uid(matches.uuid)) ELSE filename

StripLabels(filename, matches) == StripUuid(StripPeriod(filename, matches), matches)

\* _rename_no_labels' new name of one backup
NameWithoutLabels(filename) == StripLabels(filename, ParseName(filename))

\* _rename_no_labels' entry for one backup
UnlabeledEntry(backup, new_backup_name) ==
    FileForRename(backup, new_backup_name, backup.name # new_backup_name)

\* BackupManager._rename_no_labels
_rename_no_labels(sl) ==
    Flatten(List([i \in DOMAIN sl |->
        List([j \in DOMAIN sl[i].backups |->
            UnlabeledEntry(sl[i].backups[j],
                           NameWithoutLabels(sl[i].backups[j].name))])]))

\* A _rename_with_labels that renames whatever bucket the name carries.
LabeledAlways(backup, backup_type, matches) ==
    FileForRename(backup,
                  BackupName(matches.name, matches.timestamp, backup_type, 0),
                  TRUE)

\* _rename_with_labels' entry for one backup of the class backup_type, whose
\* name has the groups matches
Labeled(backup, backup_type, matches) ==
    IF matches.period # None /\ matches.period = backup_type
    THEN FileForRename(backup, backup.name, FALSE)
    ELSE FileForRename(backup,
                       BackupName(matches.name, matches.timestamp, backup_type, 0),
                       TRUE)

LabeledEntry(backup, backup_type) ==
    Labeled(backup, backup_type, ParseName(backup.name))

\* _rename_with_labels' entries for one storage location, class by class
LabeledEntries(buckets) ==
    Flatten(List([t \in DOMAIN BackupTypes |->
        List([j \in DOMAIN buckets[BackupTypes[t]] |->
            LabeledEntry(buckets[BackupTypes[t]][j], BackupTypes[t])])]))

\* BackupManager._rename_with_labels
_rename_with_labels(sl) ==
    Flatten(List([i \in DOMAIN sl |->
        LabeledEntries(backups_by_time_unit(sl[i].backups))]))

\* What the object store can answer to the requests of one rename_file.
Faults == {"copy_error", "head_404", "head_error", "delete_error"}

NoFault == [at |-> 0, kind |-> None]

\* A rename_file that deletes the old key whatever file_exists answers.
rename_file_unverified(current_name, new_name, files, fault) ==
    LET copy(resp) == Call("copy_object", <<current_name>>, <<new_name>>, resp)
        head(resp) == Call("head_object", <<new_name>>, <<>>, resp)
        del(resp)  == Call("delete_object", <<current_name>>, <<>>, resp)
    IN  IF current_name \notin files \/ fault = "copy_error"
        THEN [files |-> files, raised |-> "ClientError",
              calls |-> <<copy("ClientError")>>]
        ELSE [files  |-> (files \cup {new_name}) \ {current_name},
              raised |-> IF fault = "head_404" THEN "FailedCopyVerification"
                         ELSE None,
              calls  |-> <<copy("ok"),
                           head(IF fault = "head_404" THEN "404" ELSE "ok"),
                           del("ok")>>]

\* AWSService.rename_file: copy_object, file_exists on the new key,
\* delete_object on the old one.  copy_object of a key the store does not
\* hold is a ClientError.
rename_file(current_name, new_name, files, fault) ==
    LET copy(resp) == Call("copy_object", <<current_name>>, <<new_name>>, resp)
        head(resp) == Call("head_object", <<new_name>>, <<>>, resp)
        del(resp)  == Call("delete_object", <<current_name>>, <<>>, resp)
    IN  IF current_name \notin files \/ fault = "copy_error"
        THEN [files |-> files, raised |-> "ClientError",
              calls |-> <<copy("ClientError")>>]
        ELSE IF fault = "head_404"
        THEN [files |-> files \cup {new_name}, raised |-> "FailedCopyVerification",
              calls |-> <<copy("ok"), head("404")>>]
        ELSE IF fault = "head_error"
        THEN [files |-> files \cup {new_name}, raised |-> "ClientError",
              calls |-> <<copy("ok"), head("ClientError")>>]
        ELSE IF fault = "delete_error"
        THEN [files |-> files \cup {new_name}, raised |-> "ClientError",
              calls |-> <<copy("ok"), head("ok"), del("ClientError")>>]
        ELSE [files |-> (files \cup {new_name}) \ {current_name}, raised |-> None,
              calls |-> <<copy("ok"), head("ok"), del("ok")>>]

\* Path.rename of a local backup: FileNotFoundError when the file is not
\* there; a file already at the target is replaced.
RenameLocal(current_name, new_name, files) ==
    IF current_name \notin files
    THEN [files |-> files, raised |-> "FileNotFoundError",
          calls |-> <<Call("rename", <<current_name>>, <<new_name>>,
                           "FileNotFoundError")>>]
    ELSE [files |-> (files \ {current_name}) \cup {new_name}, raised |-> None,
          calls |-> <<Call("rename", <<current_name>>, <<new_name>>, "ok")>>]

\* len([x.new_name for x in files_for_rename if x.new_name == file.new_name]) > 1
target_exists(files, i) ==
    Cardinality({j \in DOMAIN files : files[j].new_name = files[i].new_name}) > 1

\* The name entry i is renamed to: its new_name, with a new uid when
\* target_exists.
FinalName(st, i) ==
    IF target_exists(st.files, i)
    THEN st.files[i].new_name \o <<Uid(st.uids + 1)>>
    ELSE st.files[i].new_name

\* The rename of entry i in its backend.
RenameOne(st, i, fault, new_name) ==
    IF st.files[i].backup.storage_type = StorageLocal
    THEN RenameLocal(st.files[i].backup.name, new_name, st.backend[StorageLocal])
    ELSE rename_file(st.files[i].backup.name, new_name, st.backend[StorageAws],
                     IF fault.at = i THEN fault.kind ELSE None)

\* The loop's state after entry i: file.new_name is assigned in the list.
AfterRename(st, i, new_name, done) ==
    [files   |-> [st.files EXCEPT ![i].new_name = new_name],
     backend |-> [st.backend EXCEPT ![st.files[i].backup.storage_type] = done.files],
     uids    |-> IF new_name # st.files[i].new_name THEN st.uids + 1 ELSE st.uids,
     calls   |-> st.calls \o done.calls,
     raised  |-> done.raised]

RenameAs(st, i, fault, new_name) ==
    AfterRename(st, i, new_name, RenameOne(st, i, fault, new_name))

\* rename_backups' loop from entry i on.  st carries the list, the backends,
\* the uids handed out and the calls made so far; an exception ends the loop.
RECURSIVE RenameLoop(_, _, _)
RenameLoop(st, i, fault) ==
    IF i > Len(st.files) \/ st.raised # None THEN st
    ELSE IF ~st.files[i].do_rename THEN RenameLoop(st, i + 1, fault)
    ELSE RenameLoop(RenameAs(st, i, fault, FinalName(st, i)), i + 1, fault)

\* files_for_rename as rename_backups builds it
FilesForRename(sl) ==
    IF label_time_units THEN _rename_with_labels(sl) ELSE _rename_no_labels(sl)

\* The entries whose rename is the object store's.
AwsRenames(files) ==
    {i \in DOMAIN files :
        files[i].do_rename /\ files[i].backup.storage_type = StorageAws}

\* The end of rename_backups.
Renamed(sl, todo, end) ==
    /\ _storage_locations' = sl
    /\ backend' = end.backend
    /\ uid_count' = end.uids
    /\ did_create_backup' =
           IF end.raised = None /\ \E i \in DOMAIN todo : todo[i].do_rename
           THEN TRUE ELSE did_create_backup
    /\ Observed("rename_backups", end.raised, <<>>, end.files,
                IF label_time_units THEN Bucketings(sl) ELSE <<>>,
                end.calls)

\* rename_backups on the list todo; at most one request of the object store
\* goes wrong.
RenameFiles(sl, todo) ==
    \E fault \in {NoFault} \cup [at : AwsRenames(todo), kind : Faults] :
        Renamed(sl, todo,
                RenameLoop([files |-> todo, backend |-> backend,
                            uids |-> uid_count, calls |-> <<>>,
                            raised |-> None], 1, fault))

\* BackupManager.rename_backups
rename_backups ==
    /\ ops < MaxOps
    /\ \E sl \in storage_locations : RenameFiles(sl, FilesForRename(sl))
    /\ UNCHANGED <<rebuild_storage_locations, max_backups, retention,
                   label_time_units,
                   include_regex, exclude_regex, candidates, files_to_add,
                   tmp_backup, destination, result, batch, _retention_policy,
                   aws_service>>

\* The class a backup taken now gets in the bucketing of the list with it.
ClassOf(new, buckets) == CHOOSE type \in Periods : new \in Range(buckets[type])

TimeUnitOfNew(backups, new) ==
    ClassOf(new, backups_by_time_unit(Append(backups, new)))

\* The label of a backup taken now, when time units are labeled.
LabelOfNew(storage_location, now) ==
    IF label_time_units
    THEN TimeUnitOfNew(storage_location.backups,
                       Backup(storage_location.storage_type,
                              BackupName(SettingsName, now, None, 0)))
    ELSE None

\* A uid is added when the location lists the name already.
UniqueName(storage_location, now, uid, bucket) ==
    IF BackupName(SettingsName, now, bucket, 0)
           \in Range(Names(storage_location.backups))
    THEN BackupName(SettingsName, now, bucket, uid)
    ELSE BackupName(SettingsName, now, bucket, 0)

\* StorageLocation.generate_new_backup_name: <name>-<now>[-<bucket>][-<uid>].tgz
generate_new_backup_name(storage_location, now, uid) ==
    UniqueName(storage_location, now, uid, LabelOfNew(storage_location, now))

\* copy_file into the local directory, upload_file into the bucket, and
\* what the backend answered.
Publish(type, name, resp) ==
    Call(IF type = StorageLocal THEN "copy_file" ELSE "upload_file",
         <<>>, <<name>>, resp)

\* create_backup's state after the backup of one storage location.
Created(st, type, name) ==
    [created |-> Append(st.created, Backup(type, name)),
     backend |-> [st.backend EXCEPT ![type] = @ \cup {name}],
     uids    |-> IF name[Len(name)].k = "uid" THEN st.uids + 1 ELSE st.uids,
     calls   |-> Append(st.calls, Publish(type, name, "ok")),
     raised  |-> None]

\* AWSService.upload_file logs the ClientError of s3.upload_file and raises
\* it again: nothing is stored.
UploadFailed(st, name) ==
    [created |-> st.created,
     backend |-> st.backend,
     uids    |-> IF name[Len(name)].k = "uid" THEN st.uids + 1 ELSE st.uids,
     calls   |-> Append(st.calls, Publish(StorageAws, name, "ClientError")),
     raised  |-> "ClientError"]

\* The body of create_backup's loop for one storage location.
CreateOne(st, type, name, upload_error) ==
    IF type = StorageAws /\ upload_error THEN UploadFailed(st, name)
    ELSE Created(st, type, name)

\* create_backup's loop from location i on; an exception ends it.
RECURSIVE CreateLoop(_, _, _, _, _)
CreateLoop(st, sl, i, now, upload_error) ==
    IF i > Len(sl) \/ st.raised # None THEN st
    ELSE CreateLoop(CreateOne(st, sl[i].storage_type,
                              generate_new_backup_name(sl[i], now, st.uids + 1),
                              upload_error),
                    sl, i + 1, now, upload_error)

\* What building the archive can end in: the archive, a tarfile.TarError,
\* which _create_tmp_backup_file logs to return None, or an OSError, which it
\* lets through.
\* The exception a publication of no archive ends in: copy_file reads the
\* attributes of its source, s3.upload_file checks that it has a filename.
NoneSource(type) ==
    IF type = StorageLocal THEN "AttributeError" ELSE "ValueError"

\* A first publication that stores the name whatever tmp_backup is.
PublishAnyway(st, type, name) ==
    [created |-> <<Backup(type, name)>>,
     backend |-> [st.backend EXCEPT ![type] = @ \cup {name}],
     uids    |-> IF name[Len(name)].k = "uid" THEN st.uids + 1 ELSE st.uids,
     calls   |-> <<Publish(type, name, "ok")>>,
     raised  |-> None]

\* create_backup's first publication when tmp_backup is None: copy_file and
\* s3.upload_file raise on a source that is no path, nothing is stored.
PublishNone(st, type, name) ==
    [created |-> <<>>,
     backend |-> st.backend,
     uids    |-> IF name[Len(name)].k = "uid" THEN st.uids + 1 ELSE st.uids,
     calls   |-> <<Publish(type, name, NoneSource(type))>>,
     raised  |-> NoneSource(type)]

\* create_backup from the build on.
CreateFrom(st, sl, now, upload_error, build) ==
    IF build = "OSError" THEN [st EXCEPT !.raised = "OSError"]
    ELSE IF build = "TarError"
    THEN PublishNone(st, sl[1].storage_type,
                     generate_new_backup_name(sl[1], now, st.uids + 1))
    ELSE CreateLoop(st, sl, 1, now, upload_error)

\* The end of create_backup: an exception leaves the caller without the list.
CreatedAll(sl, end) ==
    /\ _storage_locations' = sl
    /\ backend' = end.backend
    /\ uid_count' = end.uids
    /\ rebuild_storage_locations' =
           IF end.created # <<>> THEN TRUE ELSE rebuild_storage_locations
    /\ files_to_add' = _create_tmp_backup_file
    /\ Observed("create_backup", end.raised,
                IF end.raised = None THEN end.created ELSE <<>>,
                <<>>, <<>>, end.calls)

\* BackupManager.create_backup, run at the instant now, which no backup is
\* later than; the upload to the bucket goes through or ends in a ClientError;
\* the build returns the archive, logs a TarError and returns None, or ends
\* in an OSError.
create_backup ==
    /\ ops < MaxOps
    /\ \E now \in NowTimes, sl \in storage_locations, upload_error \in BOOLEAN,
          build \in {"ok", "TarError", "OSError"} :
        /\ \A type \in DOMAIN backend :
               \A name \in backend[type] : ParseName(name).timestamp <= now
        /\ CreatedAll(sl, CreateFrom([created |-> <<>>, backend |-> backend,
                                     uids |-> uid_count, calls |-> <<>>,
                                     raised |-> None],
                                    sl, now, upload_error, build))
        /\ tmp_backup' = IF build = "ok" THEN "archive" ELSE None
    /\ UNCHANGED <<did_create_backup, max_backups, retention, label_time_units,
                   include_regex, exclude_regex, candidates, destination,
                   result, batch, _retention_policy, aws_service>>

\* max(all_backups, key=lambda x: x.zoned_datetime.timestamp()): the first of
\* the backups no other is later than.
Latest(all_backups) ==
    all_backups[CHOOSE i \in DOMAIN all_backups :
                    /\ \A j \in DOMAIN all_backups :
                           zoned_datetime(all_backups[j]) <= zoned_datetime(all_backups[i])
                    /\ \A j \in 1..(i - 1) :
                           zoned_datetime(all_backups[j]) < zoned_datetime(all_backups[i])]

\* The value get_latest_backup returns, None being the empty list and a
\* backup the list of it.
LatestOrNone(all_backups) ==
    IF all_backups = <<>> THEN <<>> ELSE <<Latest(all_backups)>>

\* BackupManager.get_latest_backup
get_latest_backup ==
    /\ ops < MaxOps
    /\ \E sl \in storage_locations :
        /\ _storage_locations' = sl
        /\ Observed("get_latest_backup", None,
                    LatestOrNone(Flatten(List([i \in DOMAIN sl |-> sl[i].backups]))),
                    <<>>, <<>>, NoCalls)
    /\ UNCHANGED <<backend, rebuild_storage_locations, did_create_backup,
                   max_backups, retention, label_time_units, uid_count,
                   include_regex, exclude_regex, candidates, files_to_add,
                   tmp_backup, destination, result, batch, _retention_policy,
                   aws_service>>

\* The dictionaries Settings.update is given: the keys are max_backups and
\* the retention_<bucket> counts, a value of None is Unset.
Updates ==
    UNION {[K -> {Unset, 0, 1}] :
              K \in SUBSET {"max_backups", "yearly", "daily"} \ {{}}}

\* setattr(self, key, value) for the values that are not None.
Updated(updates, key, old) ==
    IF key \in DOMAIN updates /\ updates[key] # Unset THEN updates[key] ELSE old

\* Settings.update: the cached policy goes when a retention_<bucket> key is
\* among the keys.
update ==
    /\ ops < MaxOps
    /\ \E updates \in Updates :
        /\ max_backups' = Updated(updates, "max_backups", max_backups)
        /\ retention' = [t \in Periods |-> Updated(updates, t, retention[t])]
        /\ _retention_policy' =
               IF DOMAIN updates \cap Periods # {} THEN <<>>
               ELSE _retention_policy
    /\ Observed("update", None, <<>>, <<>>, <<>>, NoCalls)
    /\ UNCHANGED <<backend, _storage_locations, rebuild_storage_locations,
                   did_create_backup, label_time_units, uid_count,
                   include_regex, exclude_regex, candidates, files_to_add,
                   tmp_backup, destination, result, batch, aws_service>>

\* AWSService._build_full_key: bucket_path goes before a key that does not
\* begin with it.
_build_full_key(bucket_path, key) ==
    IF bucket_path = <<>> THEN key
    ELSE IF /\ Len(bucket_path) < Len(key)
            /\ SubSeq(key, 1, Len(bucket_path)) = bucket_path
    THEN key
    ELSE bucket_path \o key

\* What the bucket holds under a key, 0 when it holds nothing.
ContentAt(objects, key) ==
    IF key \in DOMAIN objects THEN objects[key] ELSE 0

\* A step of rename_file: the service after it, the exception it raised and
\* the request it made.
Stepped(service, exc, call) ==
    /\ aws_service' = service
    /\ raised' = exc
    /\ calls' = Append(calls, call)
    /\ UNCHANGED <<backend, _storage_locations, rebuild_storage_locations,
                   did_create_backup, max_backups, retention, label_time_units,
                   uid_count, ops, op, prev_op, returned, files_for_rename,
                   by_time_unit, pre, include_regex, exclude_regex, candidates,
                   files_to_add, tmp_backup, destination, result, batch,
                   _retention_policy>>

\* The names rename_file is called with.
ObjectNames == {<<"a.tgz">>, <<"b.tgz">>, <<"bp", "a.tgz">>}

\* AWSService.rename_file is called: the full keys are built.
rename_file_call ==
    /\ ops < MaxOps
    /\ aws_service.pc \in {"idle", "raised", "returned"}
    /\ \E current_name \in ObjectNames, new_name \in ObjectNames :
        aws_service' =
            [aws_service EXCEPT
                !.pc = "copy",
                !.current_name = _build_full_key(aws_service.bucket_path, current_name),
                !.new_name = _build_full_key(aws_service.bucket_path, new_name),
                !.content = ContentAt(aws_service.objects,
                                      _build_full_key(aws_service.bucket_path,
                                                      current_name))]
    /\ Observed("rename_file", None, <<>>, <<>>, <<>>, NoCalls)
    /\ UNCHANGED <<backend, _storage_locations, rebuild_storage_locations,
                   did_create_backup, max_backups, retention, label_time_units,
                   uid_count, include_regex, exclude_regex, candidates,
                   files_to_add, tmp_backup, destination, result, batch,
                   _retention_policy>>

\* A rename_file that goes on after a ClientError of copy_object.
CopyFailedContinues(service) == [service EXCEPT !.pc = "verify"]

\* except ClientError: raise, after copy_object.
CopyFailed(service) == [service EXCEPT !.pc = "raised"]

\* s3.copy_object: the store has no such source, or takes the request for
\* illegal (a copy of an object onto itself that changes nothing), or fails
\* otherwise, and the call raises; or the store copies.
rename_file_copy ==
    /\ aws_service.pc = "copy"
    /\ \E fault \in BOOLEAN :
        IF \/ fault
           \/ aws_service.content = 0
           \/ aws_service.current_name = aws_service.new_name
        THEN Stepped(CopyFailed(aws_service), "ClientError",
                     Call("copy_object", <<aws_service.current_name>>,
                          <<aws_service.new_name>>, "ClientError"))
        ELSE Stepped([aws_service EXCEPT
                         !.pc = "verify",
                         !.objects =
                             [k \in DOMAIN @ \cup {aws_service.new_name} |->
                                 IF k = aws_service.new_name
                                 THEN aws_service.content ELSE @[k]]],
                     None,
                     Call("copy_object", <<aws_service.current_name>>,
                          <<aws_service.new_name>>, "ok"))

\* if not self.file_exists(full_new_name): head_object answers 404 for a key
\* the bucket does not hold, and may fail or not see a key it holds.
rename_file_verify ==
    /\ aws_service.pc = "verify"
    /\ \E answer \in {"ok", "404", "ClientError"} :
        /\ answer = "ok" => aws_service.new_name \in DOMAIN aws_service.objects
        /\ Stepped([aws_service EXCEPT
                        !.pc = IF answer = "ok" THEN "delete" ELSE "raised"],
                   IF answer = "ok" THEN None
                   ELSE IF answer = "404" THEN "FailedCopyVerification"
                   ELSE "ClientError",
                   Call("head_object", <<aws_service.new_name>>, <<>>, answer))

\* s3.delete_object on the old key, then return True.
rename_file_delete ==
    /\ aws_service.pc = "delete"
    /\ \E fault \in BOOLEAN :
        IF fault
        THEN Stepped([aws_service EXCEPT !.pc = "raised"], "ClientError",
                     Call("delete_object", <<aws_service.current_name>>, <<>>,
                          "ClientError"))
        ELSE Stepped([aws_service EXCEPT
                         !.pc = "returned",
                         !.objects =
                             [k \in DOMAIN @ \ {aws_service.current_name} |->
                                 @[k]]],
                     None,
                     Call("delete_object", <<aws_service.current_name>>, <<>>,
                          "ok"))

\* A batch of n keys: the bucket's first, then keys it does not hold.
Batch(held, n) ==
    IF n <= Len(held) THEN SubSeq(held, 1, n)
    ELSE held \o List([i \in 1..(n - Len(held)) |->
                          BackupName(SettingsName, 1, None, i)])

\* The batches a caller asks to delete: none, few, the most and one more.
Batches(files) ==
    {Batch(Names(l), n) : l \in SortedListings(StorageAws, files),
                          n \in {0, 1, 2, MaxKeys, MaxKeys + 1}}

\* The answers of the store to a batch: all deleted, its first key in
\* Errors, a ClientError.
BatchFaults(keys) ==
    IF keys = <<>> THEN {NoDeleteFault}
    ELSE {NoDeleteFault, [kind |-> "ClientError", key |-> <<>>],
          [kind |-> "Errors", key |-> keys[1]]}

\* The end of a delete_objects.
BatchDeleted(keys, end) ==
    /\ backend' = [backend EXCEPT ![StorageAws] = end.files]
    /\ batch' = keys
    /\ result' = end.result
    /\ Observed("delete_objects", end.raised, <<>>, <<>>, <<>>, end.calls)

\* AWSService.delete_objects, called by a user of the service.
delete_objects ==
    /\ ops < MaxOps
    /\ \E keys \in Batches(backend[StorageAws]) :
           \E fault \in BatchFaults(keys) :
               BatchDeleted(keys, DeleteObjects(keys, backend[StorageAws], fault))
    /\ UNCHANGED <<_storage_locations, rebuild_storage_locations,
                   did_create_backup, max_backups, retention, label_time_units,
                   uid_count, include_regex, exclude_regex, candidates,
                   files_to_add, tmp_backup, destination, _retention_policy,
                   aws_service>>

\* How a restore_backup ends: what it returns or raises, the files of the
\* destination, the requests it made.
Restored(res, files, log, exc) ==
    [result |-> res, files |-> files, calls |-> log, raised |-> exc]

\* tarfile.open(tarfile_path).extractall(path=destination): a TarError is
\* logged and False returned, the destination as the open left it; the
\* archive holds a.txt.
Extract(name, files, log, fault) ==
    IF fault = "TarError"
    THEN Restored(FALSE, files,
                  Append(log, Call("extractall", <<name>>, <<>>, "TarError")),
                  None)
    ELSE Restored(TRUE, files \cup {"a.txt"},
                  Append(log, Call("extractall", <<name>>, <<>>, "ok")), None)

\* BackupManager._do_restore
_do_restore(backup, files, log, fault) ==
    IF backup.storage_type = StorageLocal
    THEN IF backup.name \in backend[StorageLocal]
         THEN Extract(backup.name, files, log, fault)
         ELSE Restored(None, files,
                       Append(log, Call("extractall", <<backup.name>>, <<>>,
                                        "FileNotFoundError")),
                       "FileNotFoundError")
    ELSE IF fault = "head_error"
    THEN Restored(None, files,
                  Append(log, Call("head_object", <<backup.name>>, <<>>,
                                   "ClientError")),
                  "ClientError")
    ELSE IF backup.name \notin backend[StorageAws]
    THEN Restored(FALSE, files,
                  Append(log, Call("head_object", <<backup.name>>, <<>>, "404")),
                  None)
    ELSE IF fault = "get_error"
    THEN Restored(None, files,
                  log \o <<Call("head_object", <<backup.name>>, <<>>, "ok"),
                           Call("get_object", <<backup.name>>, <<>>,
                                "ClientError")>>,
                  "ClientError")
    ELSE Extract(backup.name, files,
                 log \o <<Call("head_object", <<backup.name>>, <<>>, "ok"),
                          Call("get_object", <<backup.name>>, <<>>, "ok")>>,
                 fault)

\* restore_backup from get_latest_backup on.
RestoreLatest(latest, files, log, fault) ==
    IF latest = <<>>
    THEN Restored(FALSE, files, log, None)
    ELSE _do_restore(latest[1], files, log, fault)

\* A restore_backup that cleans whatever the destination is.
CleanedFirst(dest, clean, sl, fault) ==
    IF dest.kind # "dir"
    THEN Restored(FALSE, IF clean THEN {} ELSE dest.files,
                  IF clean THEN <<Call("clean_directory", <<>>, <<>>, "ok")>>
                  ELSE <<>>,
                  None)
    ELSE RestoreLatest(LatestOrNone(Flatten(List([i \in DOMAIN sl |-> sl[i].backups]))),
                       IF clean THEN {} ELSE dest.files,
                       IF clean THEN <<Call("clean_directory", <<>>, <<>>, "ok")>>
                       ELSE <<>>,
                       fault)

\* restore_backup: the destination is validated, then cleaned with
\* clean_directory(dest) when that is asked for, then the latest backup is
\* looked for and restored.
Validated(dest, clean, sl, fault) ==
    IF dest.kind # "dir"
    THEN Restored(FALSE, dest.files, <<>>, None)
    ELSE RestoreLatest(LatestOrNone(Flatten(List([i \in DOMAIN sl |-> sl[i].backups]))),
                       IF clean THEN {} ELSE dest.files,
                       IF clean THEN <<Call("clean_directory", <<>>, <<>>, "ok")>>
                       ELSE <<>>,
                       fault)

\* The end of restore_backup.
RestoreEnds(end) ==
    /\ destination' = [destination EXCEPT !.files = end.files]
    /\ result' = end.result
    /\ Observed("restore_backup", end.raised, <<>>, <<>>, <<>>, end.calls)

\* BackupManager.restore_backup, clean_before_restore being the argument or
\* settings.clean_before_restore.  head_object or get_object can end in a
\* ClientError, the archive can be unreadable.
restore_backup ==
    /\ ops < MaxOps
    /\ \E clean_before_restore \in BOOLEAN,
          fault \in {"ok", "head_error", "get_error", "TarError"},
          sl \in storage_locations :
        /\ _storage_locations' =
               IF destination.kind = "dir" THEN sl ELSE _storage_locations
        /\ RestoreEnds(Validated(destination, clean_before_restore, sl, fault))
    /\ UNCHANGED <<backend, rebuild_storage_locations, did_create_backup,
                   max_backups, retention, label_time_units, uid_count,
                   include_regex, exclude_regex, candidates, files_to_add,
                   tmp_backup, batch, _retention_policy, aws_service>>

Next ==
    \/ create_backup
    \/ get_latest_backup
    \/ list_backups
    \/ prune_backups
    \/ rename_backups

Spec == Init /\ [][Next]_vars

\* ----------------------------------------- the retention engine on its own

\* The lists the bucketing is applied to: unlabeled backups at any of the
\* instants of Calendar.
ListNames == {BackupName(SettingsName, t, None, 0) : t \in AllTimes}

Lists == {S \in SUBSET ListNames : Cardinality(S) <= MaxList}

\* A manager of one local directory of backups under a time-based policy
\* that labels time units.
InitBuckets ==
    /\ backend \in [{StorageLocal, StorageAws} -> Lists]
    /\ backend[StorageAws] = {}
    /\ _storage_locations = <<>>
    /\ rebuild_storage_locations = FALSE
    /\ did_create_backup = FALSE
    /\ max_backups = Unset
    /\ retention \in RetentionInputs
    /\ RetentionPolicyManager(max_backups, retention).policy_type = "time_based"
    /\ label_time_units = TRUE
    /\ uid_count = 0
    /\ ops = 0
    /\ op = "init"
    /\ prev_op = "init"
    /\ raised = None
    /\ returned = <<>>
    /\ files_for_rename = <<>>
    /\ by_time_unit = <<>>
    /\ calls = NoCalls
    /\ pre = backend
    /\ Unfiltered

NextBuckets ==
    \/ prune_backups
    \/ rename_backups

SpecBuckets == InitBuckets /\ [][NextBuckets]_vars

\* ------------------------------------------------------ renames on their own

\* The identities of the backups the storage locations list: settings.name,
\* and a name that reads <settings.name>-daily.
Identities == {SettingsName, SettingsName \o <<Word("daily")>>}

RenameTimes == {3, 4}

\* A uid an earlier rename or create gave a file.
OldUid == 90

\* The filenames a rename finds: with and without a bucket, with and without
\* a uid.
RenameNames ==
    {BackupName(id, t, p, u) :
        id \in Identities, t \in RenameTimes,
        p \in {None, "daily", "monthly", "yearly"}, u \in {0, OldUid}}

\* The subsets of S of at most n elements.
RECURSIVE UpTo(_, _)
UpTo(S, n) ==
    IF n = 0 THEN {{}}
    ELSE LET smaller == UpTo(S, n - 1)
         IN  {p \cup {x} : p \in smaller, x \in S} \cup {{}}

RenameInventories == UpTo(RenameNames, MaxInit)

\* A manager without a retention policy, on a directory and a bucket of
\* backups that carry any of the labels.
InitRename ==
    /\ backend \in [{StorageLocal, StorageAws} -> RenameInventories]
    /\ \/ backend[StorageAws] \in {backend[StorageLocal], {}}
       \/ backend[StorageLocal] = {}
    /\ _storage_locations = <<>>
    /\ rebuild_storage_locations = FALSE
    /\ did_create_backup = FALSE
    /\ max_backups = Unset
    /\ retention = [t \in Periods |-> Unset]
    /\ label_time_units \in BOOLEAN
    /\ uid_count = 0
    /\ ops = 0
    /\ op = "init"
    /\ prev_op = "init"
    /\ raised = None
    /\ returned = <<>>
    /\ files_for_rename = <<>>
    /\ by_time_unit = <<>>
    /\ calls = NoCalls
    /\ pre = backend
    /\ Unfiltered

NextRename ==
    \/ list_backups
    \/ rename_backups

SpecRename == InitRename /\ [][NextRename]_vars

\* ------------------------------------------------------ the filter on its own

\* Most files under the source directories.
MaxFiles == 2

Directories == {"docs", "tmp"}

Basenames == {"a.txt", "tmp", ".DS_Store"}

\* The files the traversal of a source directory meets.
Files ==
    {File(<<d, b>>, l) : d \in Directories, b \in Basenames, l \in BOOLEAN}

\* The values of settings.include_regex and settings.exclude_regex.
Regexes == {None, "", "docs", "tmp", "a.txt"}

\* A manager of two empty storage locations, with any regexes and any files
\* to back up.
InitFilter ==
    /\ backend = [type \in {StorageLocal, StorageAws} |-> {}]
    /\ _storage_locations = <<>>
    /\ rebuild_storage_locations = FALSE
    /\ did_create_backup = FALSE
    /\ max_backups = Unset
    /\ retention = [t \in Periods |-> Unset]
    /\ label_time_units = FALSE
    /\ uid_count = 0
    /\ ops = 0
    /\ op = "init"
    /\ prev_op = "init"
    /\ raised = None
    /\ returned = <<>>
    /\ files_for_rename = <<>>
    /\ by_time_unit = <<>>
    /\ calls = NoCalls
    /\ pre = backend
    /\ include_regex \in Regexes
    /\ exclude_regex \in Regexes
    /\ candidates \in UpTo(Files, MaxFiles)
    /\ files_to_add = {}
    /\ tmp_backup = None
    /\ aws_service = Service(<<>>, <<>>)
    /\ _retention_policy = <<>>
    /\ batch = <<>>
    /\ result = None
    /\ destination = Destination("unset", {})

NextFilter ==
    \/ create_backup
    \/ list_backups

SpecFilter == InitFilter /\ [][NextFilter]_vars

\* ----------------------------------------------------- the sources on their own

\* The files the configured sources lead to: files under a directory, files
\* under a directory that is configured by a symlink to it, files that are
\* sources themselves and files configured by a symlink to them.
SourceFiles ==
    {Candidate(<<d, b>>, l, FALSE, sl) :
        d \in Directories, b \in Basenames, l \in BOOLEAN, sl \in BOOLEAN}
        \cup {Candidate(<<d, b>>, l, TRUE, l) :
                  d \in Directories, b \in Basenames, l \in BOOLEAN}

\* A manager of two empty storage locations without regexes, with any files
\* to back up.
InitSources ==
    /\ backend = [type \in {StorageLocal, StorageAws} |-> {}]
    /\ _storage_locations = <<>>
    /\ rebuild_storage_locations = FALSE
    /\ did_create_backup = FALSE
    /\ max_backups = Unset
    /\ retention = [t \in Periods |-> Unset]
    /\ label_time_units = FALSE
    /\ uid_count = 0
    /\ ops = 0
    /\ op = "init"
    /\ prev_op = "init"
    /\ raised = None
    /\ returned = <<>>
    /\ files_for_rename = <<>>
    /\ by_time_unit = <<>>
    /\ calls = NoCalls
    /\ pre = backend
    /\ include_regex = None
    /\ exclude_regex = None
    /\ candidates \in UpTo(SourceFiles, MaxFiles)
    /\ files_to_add = {}
    /\ tmp_backup = None
    /\ aws_service = Service(<<>>, <<>>)
    /\ _retention_policy = <<>>
    /\ batch = <<>>
    /\ result = None
    /\ destination = Destination("unset", {})

NextSources ==
    \/ create_backup
    \/ list_backups

SpecSources == InitSources /\ [][NextSources]_vars

\* --------------------------------------------------- restoring the latest

\* Init with a restore destination.
InitRestore ==
    /\ backend \in [{StorageLocal, StorageAws} -> Inventories]
    /\ _storage_locations = <<>>
    /\ rebuild_storage_locations = FALSE
    /\ did_create_backup = FALSE
    /\ max_backups \in {Unset, 1}
    /\ retention = [t \in Periods |-> Unset]
    /\ label_time_units = TRUE
    /\ uid_count = 0
    /\ ops = 0
    /\ op = "init"
    /\ prev_op = "init"
    /\ raised = None
    /\ returned = <<>>
    /\ files_for_rename = <<>>
    /\ by_time_unit = <<>>
    /\ calls = NoCalls
    /\ pre = backend
    /\ include_regex = None
    /\ exclude_regex = None
    /\ candidates = {File(<<"docs", "a.txt">>, FALSE)}
    /\ files_to_add = {}
    /\ tmp_backup = None
    /\ aws_service = Service(<<>>, <<>>)
    /\ _retention_policy = <<>>
    /\ batch = <<>>
    /\ result = None
    /\ destination \in
           {Destination(k, {}) : k \in {"unset", "missing", "file", "dir"}}
               \cup {Destination("dir", {"old.txt"})}
    /\ batch = <<>>

NextRestore ==
    \/ list_backups
    \/ prune_backups
    \/ restore_backup

SpecRestore == InitRestore /\ [][NextRestore]_vars

\* ------------------------------------------------ the batch delete request

\* A bucket of backups and a user of AWSService.
InitDelete ==
    /\ backend \in [{StorageLocal, StorageAws} -> Inventories]
    /\ backend[StorageLocal] = {}
    /\ _storage_locations = <<>>
    /\ rebuild_storage_locations = FALSE
    /\ did_create_backup = FALSE
    /\ max_backups = Unset
    /\ retention = [t \in Periods |-> Unset]
    /\ label_time_units = TRUE
    /\ uid_count = 0
    /\ ops = 0
    /\ op = "init"
    /\ prev_op = "init"
    /\ raised = None
    /\ returned = <<>>
    /\ files_for_rename = <<>>
    /\ by_time_unit = <<>>
    /\ calls = NoCalls
    /\ pre = backend
    /\ Unfiltered

NextDelete ==
    \/ delete_objects
    \/ list_backups

SpecDelete == InitDelete /\ [][NextDelete]_vars

\* ------------------------------------------------- settings and their cache

\* A Settings object whose policy has been read or not, and one directory of
\* backups.
InitSettings ==
    /\ backend \in [{StorageLocal, StorageAws} -> Inventories]
    /\ backend[StorageAws] = {}
    /\ _storage_locations = <<>>
    /\ rebuild_storage_locations = FALSE
    /\ did_create_backup = FALSE
    /\ max_backups \in {Unset, 0, 1}
    /\ retention \in
           {r \in [Periods -> {Unset, 0, 1}] :
               \A t \in Periods \ {"yearly", "daily"} : r[t] = Unset}
    /\ _retention_policy \in
           {<<>>, <<RetentionPolicyManager(max_backups, retention)>>}
    /\ label_time_units = TRUE
    /\ uid_count = 0
    /\ ops = 0
    /\ op = "init"
    /\ prev_op = "init"
    /\ raised = None
    /\ returned = <<>>
    /\ files_for_rename = <<>>
    /\ by_time_unit = <<>>
    /\ calls = NoCalls
    /\ pre = backend
    /\ include_regex = None
    /\ exclude_regex = None
    /\ candidates = {File(<<"docs", "a.txt">>, FALSE)}
    /\ files_to_add = {}
    /\ tmp_backup = None
    /\ aws_service = Service(<<>>, <<>>)
    /\ batch = <<>>
    /\ result = None
    /\ destination = Destination("unset", {})

NextSettings ==
    \/ prune_backups
    \/ update

SpecSettings == InitSettings /\ [][NextSettings]_vars

\* ------------------------------------------- archives of other identities

\* The identities of the archives a root can hold: settings.name, two that
\* begin with it or end in it, one that has nothing of it.
RootNames ==
    {BackupName(id, t, None, 0) :
        id \in {SettingsName, SettingsName \o <<Word("daily")>>,
                <<Word("my")>> \o SettingsName, <<Word("bar")>>},
        t \in RenameTimes}

\* Two roots that hold archives of several identities.
InitIdentity ==
    /\ backend \in [{StorageLocal, StorageAws} -> UpTo(RootNames, MaxInit)]
    /\ _storage_locations = <<>>
    /\ rebuild_storage_locations = FALSE
    /\ did_create_backup = FALSE
    /\ max_backups \in {Unset, 1}
    /\ retention = [t \in Periods |-> Unset]
    /\ label_time_units \in BOOLEAN
    /\ uid_count = 0
    /\ ops = 0
    /\ op = "init"
    /\ prev_op = "init"
    /\ raised = None
    /\ returned = <<>>
    /\ files_for_rename = <<>>
    /\ by_time_unit = <<>>
    /\ calls = NoCalls
    /\ pre = backend
    /\ Unfiltered

NextIdentity ==
    \/ prune_backups
    \/ rename_backups

SpecIdentity == InitIdentity /\ [][NextIdentity]_vars

\* ------------------------------------------- rename_file, request by request

\* The buckets: full keys and what is held under them.
Buckets3 ==
    UNION {[K -> {1, 2}] : K \in SUBSET (ObjectNames \cup {<<"bp", "b.tgz">>})}

\* A service on a bucket, with a bucket_path or without.
InitRenameFile ==
    /\ backend = [type \in {StorageLocal, StorageAws} |-> {}]
    /\ _storage_locations = <<>>
    /\ rebuild_storage_locations = FALSE
    /\ did_create_backup = FALSE
    /\ max_backups = Unset
    /\ retention = [t \in Periods |-> Unset]
    /\ label_time_units = TRUE
    /\ uid_count = 0
    /\ ops = 0
    /\ op = "init"
    /\ prev_op = "init"
    /\ raised = None
    /\ returned = <<>>
    /\ files_for_rename = <<>>
    /\ by_time_unit = <<>>
    /\ calls = NoCalls
    /\ pre = backend
    /\ include_regex = None
    /\ exclude_regex = None
    /\ candidates = {File(<<"docs", "a.txt">>, FALSE)}
    /\ files_to_add = {}
    /\ tmp_backup = None
    /\ _retention_policy = <<>>
    /\ batch = <<>>
    /\ result = None
    /\ destination = Destination("unset", {})
    /\ \E bucket_path \in {<<>>, <<"bp">>}, objects \in Buckets3 :
           aws_service = Service(bucket_path, objects)

NextRenameFile ==
    \/ rename_file_call
    \/ rename_file_copy
    \/ rename_file_verify
    \/ rename_file_delete

SpecRenameFile == InitRenameFile /\ [][NextRenameFile]_vars

\* ------------------------------------------------------------------ claims

Mutating == {"create_backup", "prune_backups", "rename_backups"}

\* The storage location of the manager's list for a storage type.
LocationOf(type) ==
    _storage_locations[CHOOSE i \in DOMAIN _storage_locations :
                           _storage_locations[i].storage_type = type]

Max(a, b) == IF a >= b THEN a ELSE b

\* v is what is left of list b when its keep most recent backups are taken out.
AllButMostRecent(v, b, keep) ==
    /\ Range(v) \subseteq Range(b)
    /\ Len(v) = Max(0, Len(b) - keep)
    /\ Cardinality(Range(v)) = Len(v)
    /\ \A x \in Range(v) : \A y \in Range(b) \ Range(v) :
           zoned_datetime(x) <= zoned_datetime(y)

\* C1: the second of two prune_backups calls in succession ends normally,
\* returns no victim and issues no delete call.
PruneIdempotent ==
    (op = "prune_backups" /\ prev_op = "prune_backups")
        => (raised = None /\ returned = <<>> /\ calls = <<>>)

\* C2: after a prune_backups that completed under CountBased(n), every
\* storage location holds at most n backups.
CountBasedRetentionBound ==
    (op = "prune_backups" /\ raised = None
        /\ retention_policy.policy_type = "count_based")
        => \A type \in DOMAIN backend :
               Cardinality(backend[type]) <= retention_policy.count_based_policy

\* C6: a read that follows a mutating operation returns exactly the backups
\* the backends hold.
ReadAfterMutationIsFresh ==
    (op = "list_backups" /\ prev_op \in Mutating)
        => \A type \in DOMAIN backend :
               Range(Names(OfType(returned, type))) = backend[type]

\* C7: under CountBased(n) the victims prune_backups returns are, for each
\* storage location, the location's backups other than its n most recent.
CountBasedSelection ==
    (op = "prune_backups" /\ raised = None
        /\ retention_policy.policy_type = "count_based")
        => \A type \in DOMAIN backend :
               AllButMostRecent(OfType(returned, type), LocationOf(type).backups,
                                retention_policy.count_based_policy)

\* A count-based prune that kept one backup of a location and returned another.
CountBasedSelectionWitness ==
    /\ op = "prune_backups" /\ raised = None
    /\ retention_policy.policy_type = "count_based"
    /\ retention_policy.count_based_policy = 1
    /\ \E type \in DOMAIN backend :
           /\ Len(LocationOf(type).backups) = 2
           /\ Len(OfType(returned, type)) = 1

\* The count a time-based policy keeps of a bucket: 0 when none is set.
Keep(type) == IF retention[type] = Unset THEN 0 ELSE retention[type]

\* C3: after a prune_backups that completed under a time-based policy, of
\* every bucket of every storage location, as the location's inventory before
\* the call classifies, at most the bucket's retention count is still there.
TimeBasedRetentionBound ==
    (op = "prune_backups" /\ raised = None
        /\ retention_policy.policy_type = "time_based")
        => \A type \in DOMAIN backend :
               \E l \in SortedListings(type, pre[type]) :
                   \A t \in Periods :
                       Cardinality({b \in Range(backups_by_time_unit(l)[t]) :
                                       b.name \in backend[type]}) <= Keep(t)

\* C4: the second of two rename_backups calls in succession has no entry
\* with do_rename set and makes no backend call.
RenameIdempotent ==
    (op = "rename_backups" /\ prev_op = "rename_backups")
        => /\ \A i \in DOMAIN files_for_rename : ~files_for_rename[i].do_rename
           /\ calls = <<>>

\* C5: rename_file deletes the old key only right after a copy_object that
\* succeeded and a head_object of the new key that found it; a head_object
\* that answers 404 ends the operation with the copy-not-verified error, no
\* request after it and the old key still in the bucket.
RenameVerifiesBeforeDelete ==
    op = "rename_backups"
        => \A k \in DOMAIN calls :
            /\ calls[k].api = "delete_object"
                   => /\ k >= 3
                      /\ calls[k - 2].api = "copy_object"
                      /\ calls[k - 2].resp = "ok"
                      /\ calls[k - 2].keys = calls[k].keys
                      /\ calls[k - 1].api = "head_object"
                      /\ calls[k - 1].resp = "ok"
                      /\ calls[k - 1].keys = calls[k - 2].dst
            /\ (calls[k].api = "head_object" /\ calls[k].resp = "404")
                   => /\ raised = "FailedCopyVerification"
                      /\ k = Len(calls)
                      /\ k >= 2
                      /\ calls[k - 1].api = "copy_object"
                      /\ calls[k - 1].keys[1] \in backend[StorageAws]

\* A rename whose read-back answered 404: the copy is in the bucket and so is
\* the old key.
RenameVerifyFailedWitness ==
    /\ op = "rename_backups"
    /\ raised = "FailedCopyVerification"
    /\ calls # <<>>
    /\ calls[Len(calls)].api = "head_object"
    /\ calls[Len(calls)].resp = "404"
    /\ calls[Len(calls)].keys[1] \in backend[StorageAws]
    /\ calls[Len(calls) - 1].keys[1] \in backend[StorageAws]

\* The victims among the members of a bucket, in the order returned.
VictimsOf(bucket) == SelectSeq(returned, LAMBDA b : b \in Range(bucket))

\* C8: under a time-based policy the victims prune_backups returns are, for
\* each storage location and each bucket, the bucket's members other than
\* its retention_<bucket> most recent, none being kept of a bucket without a
\* count; nothing else is a victim and no victim is returned twice.
TimeBasedSelection ==
    (op = "prune_backups" /\ raised = None
        /\ retention_policy.policy_type = "time_based")
        => /\ \A i \in DOMAIN by_time_unit : \A t \in Periods :
                  AllButMostRecent(VictimsOf(by_time_unit[i][t]),
                                   by_time_unit[i][t], Keep(t))
           /\ Range(returned) \subseteq
                  UNION {Range(by_time_unit[i][t]) :
                            i \in DOMAIN by_time_unit, t \in Periods}
           /\ Cardinality(Range(returned)) = Len(returned)

\* A time-based prune of a location with a bucket of several members of which
\* the policy keeps one, and a bucket with members and no count.
TimeBasedSelectionWitness ==
    /\ op = "prune_backups" /\ raised = None
    /\ retention_policy.policy_type = "time_based"
    /\ \E i \in DOMAIN by_time_unit :
           /\ \E t \in Periods :
                  /\ retention[t] = 1
                  /\ Len(by_time_unit[i][t]) >= 2
                  /\ Len(VictimsOf(by_time_unit[i][t])) = Len(by_time_unit[i][t]) - 1
           /\ \E t \in Periods :
                  /\ retention[t] = Unset
                  /\ Len(by_time_unit[i][t]) >= 2
                  /\ Range(by_time_unit[i][t]) \subseteq Range(returned)

\* The sum of the lengths of the buckets of a bucketing.
Sizes(buckets) ==
    Len(buckets.yearly) + Len(buckets.monthly) + Len(buckets.weekly)
        + Len(buckets.daily) + Len(buckets.hourly) + Len(buckets.minutely)

\* C9: the bucketing of a storage location's list puts every backup of the
\* list in exactly one of the six classes.
BucketingPartition ==
    \A i \in DOMAIN by_time_unit :
        LET backups == _storage_locations[i].backups
            buckets == by_time_unit[i]
        IN  /\ UNION {Range(buckets[t]) : t \in Periods} = Range(backups)
            /\ \A t, u \in Periods :
                   t # u => Range(buckets[t]) \cap Range(buckets[u]) = {}
            /\ Sizes(buckets) = Len(backups)

\* A bucketing of seven backups in which every pass classified one and one
\* was left to no pass.
BucketingPartitionWitness ==
    \E i \in DOMAIN by_time_unit :
        /\ Len(_storage_locations[i].backups) = 7
        /\ \A t \in Periods \ {"minutely"} : Len(by_time_unit[i][t]) = 1
        /\ Len(by_time_unit[i].minutely) = 2

Year(backup) == Calendar[zoned_datetime(backup)].y

\* C10: in the bucketing of a list that is not empty the most recent backup
\* is yearly, and of each calendar year of the list exactly one backup is
\* yearly, the most recent of that year.
CoarsestUnique ==
    \A i \in DOMAIN by_time_unit :
        LET backups == _storage_locations[i].backups
            yearly  == by_time_unit[i].yearly
        IN  backups # <<>>
            => /\ backups[Len(backups)] \in Range(yearly)
               /\ \A b \in Range(backups) :
                      \E y \in Range(yearly) :
                          /\ Year(y) = Year(b)
                          /\ zoned_datetime(b) <= zoned_datetime(y)
               /\ \A x, y \in Range(yearly) : Year(x) = Year(y) => x = y
               /\ Cardinality(Range(yearly)) = Len(yearly)

\* A bucketing of a list over three calendar years, several backups in one.
CoarsestUniqueWitness ==
    \E i \in DOMAIN by_time_unit :
        /\ Cardinality({Year(b) : b \in Range(_storage_locations[i].backups)}) = 3
        /\ Len(_storage_locations[i].backups) >= 5
        /\ Len(by_time_unit[i].yearly) = 3

\* -------------------------------------------------- claims about the renames

\* Whether a filename ends in a uid.
EndsInUid(filename) == filename[Len(filename)].k = "uid"

\* The name _rename_no_labels or _rename_with_labels computed for an entry
\* of files_for_rename: neither ends in a uid, the loop appends one.
Target(entry) ==
    IF entry.do_rename /\ EndsInUid(entry.new_name)
    THEN SubSeq(entry.new_name, 1, Len(entry.new_name) - 1)
    ELSE entry.new_name

\* The entries of files_for_rename to rename.
Pending == {i \in DOMAIN files_for_rename : files_for_rename[i].do_rename}

SameLocation(i, j) ==
    files_for_rename[i].backup.storage_type = files_for_rename[j].backup.storage_type

\* C11: after a rename_backups that completed, any two backups of one storage
\* location that were to be renamed to the same name both carry a uid, and
\* their names differ.
CollidingTargetsAllGetUid ==
    (op = "rename_backups" /\ raised = None)
        => \A i, j \in Pending :
               (i # j /\ SameLocation(i, j)
                    /\ Target(files_for_rename[i]) = Target(files_for_rename[j]))
                   => /\ EndsInUid(files_for_rename[i].new_name)
                      /\ EndsInUid(files_for_rename[j].new_name)
                      /\ files_for_rename[i].new_name # files_for_rename[j].new_name

\* C12: after a rename_backups that completed, a renamed backup carries an
\* appended uid only if another backup of its own storage location has the
\* same target name.
UidOnlyOnSameLocationCollision ==
    (op = "rename_backups" /\ raised = None)
        => \A i \in Pending :
               EndsInUid(files_for_rename[i].new_name)
                   => \E j \in DOMAIN files_for_rename :
                          /\ j # i
                          /\ SameLocation(i, j)
                          /\ Target(files_for_rename[j]) = Target(files_for_rename[i])

\* ---------------------------------------------------- claims about failures

\* The backups create_backup's backend calls stored.
Published ==
    {Backup(IF calls[k].api = "copy_file" THEN StorageLocal ELSE StorageAws,
            calls[k].dst[1]) : k \in {n \in DOMAIN calls : calls[n].resp = "ok"}}

\* C13: create_backup publishes to every storage location, whatever the
\* other publications answer, and returns exactly the backups whose
\* publication succeeded.
CreateReturnsSuccesses ==
    op = "create_backup"
        => /\ Len(calls) = Len(_storage_locations)
           /\ Range(returned) = Published

\* The backend call that starts the rename of an entry of files_for_rename.
Attempted(entry) ==
    \E k \in DOMAIN calls :
        /\ calls[k].api = IF entry.backup.storage_type = StorageLocal
                          THEN "rename" ELSE "copy_object"
        /\ calls[k].keys = <<entry.backup.name>>

\* C14: rename_backups attempts the rename of every backup with do_rename
\* set, whatever the renames of the others answer.
RenameAttemptsEveryPending ==
    op = "rename_backups" => \A i \in Pending : Attempted(files_for_rename[i])

\* The victims prune_backups selected from the list it worked on.
Selected == Range(Victims(_storage_locations, retention_policy))

\* The backend call that deletes a victim.
DeleteAttempted(victim) ==
    \E k \in DOMAIN calls :
        IF victim.storage_type = StorageLocal
        THEN calls[k].api = "unlink" /\ calls[k].keys = <<victim.name>>
        ELSE calls[k].api = "delete_objects" /\ victim.name \in Range(calls[k].keys)

\* C15: prune_backups ends without an exception and has asked the backends
\* to delete every victim, whatever the deletes of the others answered.
PruneAttemptsEveryVictim ==
    op = "prune_backups"
        => /\ raised = None
           /\ \A victim \in Selected : DeleteAttempted(victim)

\* C16: no backup in the list prune_backups returns is still in its backend.
PruneReturnsOnlyDeleted ==
    (op = "prune_backups" /\ raised = None)
        => \A b \in Range(returned) : b.name \notin backend[b.storage_type]

\* ------------------------------------------- claims about the target names

\* The backups of the list the last operation worked on.
Listed == UNION {Range(_storage_locations[i].backups) : i \in DOMAIN _storage_locations}

\* Every listed backup has one entry in files_for_rename.
OneEntryEach ==
    /\ {files_for_rename[i].backup : i \in DOMAIN files_for_rename} = Listed
    /\ Len(files_for_rename) = Cardinality(Listed)

\* The class the bucketing of its storage location gave a backup.
ComputedClass(backup) ==
    CHOOSE t \in Periods :
        \E i \in DOMAIN by_time_unit :
            /\ _storage_locations[i].storage_type = backup.storage_type
            /\ backup \in Range(by_time_unit[i][t])

\* An entry whose backup is not renamed: its name stays, no call is made for
\* it and the file is where it was.
Untouched(entry) ==
    /\ entry.new_name = entry.backup.name
    /\ ~Attempted(entry)
    /\ entry.backup.name \in pre[entry.backup.storage_type]
           => entry.backup.name \in backend[entry.backup.storage_type]

\* What labeled mode does with the entry of a backup whose name has the
\* groups matches and whose class is class.
LabeledAs(entry, matches, class) ==
    /\ entry.do_rename <=> matches.period # class
    /\ entry.do_rename
           => Target(entry) = BackupName(matches.name, matches.timestamp, class, 0)
    /\ ~entry.do_rename => Untouched(entry)
    /\ (entry.do_rename /\ raised = None) => Attempted(entry)

\* C17: with time-unit labeling on, rename_backups renames a backup exactly
\* when the bucket of its name is missing or is not its computed class, to
\* <name>-<timestamp>-<class>.tgz (before the uid a collision appends) with
\* the name and the timestamp of its current name; a backup whose bucket is
\* its class is left untouched.
LabeledRename ==
    (op = "rename_backups" /\ label_time_units)
        => /\ OneEntryEach
           /\ \A i \in DOMAIN files_for_rename :
                  LabeledAs(files_for_rename[i],
                            ParseName(files_for_rename[i].backup.name),
                            ComputedClass(files_for_rename[i].backup))

\* A labeled rename that completed on a location with a backup labeled with
\* its class and a backup labeled with another.
LabeledRenameWitness ==
    /\ op = "rename_backups" /\ label_time_units /\ raised = None
    /\ \E i, j \in DOMAIN files_for_rename :
           /\ SameLocation(i, j)
           /\ ~files_for_rename[i].do_rename
           /\ ParseName(files_for_rename[i].backup.name).period = "yearly"
           /\ files_for_rename[j].do_rename
           /\ ParseName(files_for_rename[j].backup.name).period = "daily"
           /\ ParseName(files_for_rename[j].new_name).period = "monthly"
           /\ files_for_rename[j].new_name \in backend[files_for_rename[j].backup.storage_type]

\* What unlabeled mode is to do with the entry of a backup whose name has
\* the groups matches.
UnlabeledAs(entry, matches) ==
    /\ Target(entry) = BackupName(matches.name, matches.timestamp, None, 0)
    /\ entry.do_rename <=> (matches.period # None \/ matches.uuid # 0)

\* C18: with time-unit labeling off, the name rename_backups computes for a
\* backup is <name>-<timestamp>.tgz with the name and the timestamp of its
\* current name, and the backup is renamed exactly when its name carries a
\* bucket or a uid.
UnlabeledRename ==
    (op = "rename_backups" /\ ~label_time_units)
        => /\ OneEntryEach
           /\ \A i \in DOMAIN files_for_rename :
                  UnlabeledAs(files_for_rename[i],
                              ParseName(files_for_rename[i].backup.name))

\* ----------------------------------------------------- claims about reads

\* C19: get_latest_backup returns None exactly when no storage location holds
\* a backup, and otherwise a backup that no backup of any storage location is
\* later than.
LatestIsLatest ==
    op = "get_latest_backup"
        => /\ returned = <<>> <=> \A type \in DOMAIN backend : backend[type] = {}
           /\ returned # <<>>
                  => \A type \in DOMAIN backend : \A name \in backend[type] :
                         ParseName(name).timestamp <= zoned_datetime(returned[1])

\* ------------------------------------------------- claims about the archive

\* A regex is configured when it is set to a text that is not empty.
Configured(regex) == regex \notin {None, ""}

\* C20: a file that is not a symlink is in the archive exactly when its
\* basename is not in the always-exclude set, no include regex is configured
\* or the include regex matches its full path, and no exclude regex is
\* configured or the exclude regex does not match its full path.
FilterOrder ==
    op = "create_backup"
        => \A f \in candidates :
               ~f.is_symlink
                   => (f \in files_to_add
                          <=> /\ Basename(f.path) \notin ALWAYS_EXCLUDE_FILENAMES
                              /\ ~Configured(include_regex)
                                     \/ Search(include_regex, f.path)
                              /\ ~Configured(exclude_regex)
                                     \/ ~Search(exclude_regex, f.path))

\* An archive built under both regexes from a file that the include regex
\* matches by its directory and the exclude regex does not match, and a file
\* that both match.
FilterOrderWitness ==
    /\ op = "create_backup"
    /\ Configured(include_regex) /\ Configured(exclude_regex)
    /\ \E f, g \in candidates :
           /\ ~f.is_symlink /\ ~g.is_symlink
           /\ f \in files_to_add
           /\ ~Search(include_regex, <<Basename(f.path)>>)
           /\ g \notin files_to_add
           /\ Search(include_regex, g.path)
           /\ Search(exclude_regex, g.path)

\* C21: no file of the archive is a symlink, is a source configured as a
\* symlink, or was met under a source configured as a symlink.
NoEntryFromSymlink ==
    op = "create_backup"
        => \A f \in files_to_add : ~f.is_symlink /\ ~f.source_is_symlink

InvalidDestinationReturnsFalse ==
    (op = "restore_backup" /\ destination.kind # "dir")
        => /\ result = FALSE
           /\ raised = None
           /\ calls = <<>>
           /\ backend = pre

\* A restore_backup asked onto a file while a backup is stored.
InvalidDestinationWitness ==
    /\ op = "restore_backup"
    /\ destination.kind = "file"
    /\ backend[StorageLocal] # {}
    /\ result = FALSE
    /\ calls = <<>>

\* C28: a restore_backup that returns False leaves the files of the
\* destination as they were before the call.
FailedRestoreLeavesDestination ==
    [][(/\ op' = "restore_backup" /\ ops' = ops + 1
        /\ raised' = None /\ result' = FALSE)
           => destination' = destination]_vars

Precedence(policy) ==
    /\ policy.policy_type \in {"count_based", "time_based", "keep_all"}
    /\ max_backups # Unset
           => /\ policy.policy_type = "count_based"
              /\ policy.count_based_policy = max_backups
    /\ policy.policy_type = "time_based"
           => /\ max_backups = Unset
              /\ \E t \in Periods : retention[t] # Unset
    /\ (max_backups = Unset /\ \A t \in Periods : retention[t] = Unset)
           => policy.policy_type = "keep_all"

\* C25: the policy a prune_backups read from the settings is count-based
\* whenever max_backups is given, 0 included, time-based only when
\* max_backups is not given and a retention count is, and keep-all when
\* nothing is given.
PolicyPrecedence ==
    op = "prune_backups" => Precedence(_retention_policy[1])

\* C30: the policy read after an update is the one the inputs as they are
\* now determine.
PolicyCacheCoherent ==
    (op = "prune_backups" /\ prev_op = "update")
        => _retention_policy = <<RetentionPolicyManager(max_backups, retention)>>

\* C26: a rename_backups that lists the storage locations afresh and ends
\* without an exception leaves every location with as many backups as it
\* held before: no rename lands on a filename another backup of the location
\* holds or was just given.
RenameKeepsEveryBackup ==
    (op = "rename_backups" /\ prev_op = "init" /\ raised = None)
        => \A type \in DOMAIN backend :
               Cardinality(backend[type]) = Cardinality(pre[type])

\* The requests that delete or move a stored file.
Removals == {"unlink", "delete_objects", "rename", "copy_object"}

\* C27: every file a prune_backups or a rename_backups asked a backend to
\* delete or to rename is a backup whose name field is settings.name.
IdentityIsolation ==
    (op = "prune_backups" \/ op = "rename_backups")
        => \A k \in DOMAIN calls :
               calls[k].api \in Removals
                   => \A key \in Range(calls[k].keys) :
                          ParseName(key).name = SettingsName

\* The bucket holds the content of the object to rename under the key.
Holds(key) ==
    ContentAt(aws_service.objects, key) = aws_service.content

====
